---- MODULE Spec2Model ----
(***************************************************************************)
(* Lead-time dashboard (src/src/App.js): the ingestion pipeline           *)
(* (handleFileUpload, processCSV, tryAutoLoad), the reset button, the     *)
(* type-filter toggle and the percentile computation of the render        *)
(* function.                                                               *)
(*                                                                         *)
(* App.js holds the component twice.  The second copy (lines 433-947) is  *)
(* the one with file-name state, validation and the reset button; Spec,   *)
(* SpecLive (Spec with the fairness of the event loop), SpecData and      *)
(* SpecPct model it.  The first copy (lines 5-427) has no                 *)
(* validation and no reset; SpecFirst models it, with the definitions     *)
(* whose names end in First.                                              *)
(*                                                                         *)
(* The variables are the component's React state plus the position of the *)
(* two async functions.  One action is one synchronous run of JavaScript  *)
(* (from an event or a resolved await up to the next await); the state    *)
(* updates made during one such run are committed together, which is how  *)
(* React applies updates it batches.                                      *)
(***************************************************************************)
EXTENDS Integers, Sequences, FiniteSets, TLC

VARIABLES
    data,         \* useState([])    : sequence of records
    itemTypes,    \* useState([])    : sequence of type names, first-seen order
    typeFilters,  \* useState({})    : function type name -> BOOLEAN
    loading,      \* useState(false)
    error,        \* useState(null)  : an error record, NoError for null
    csvUploaded,  \* useState(false)
    fileName,     \* useState('')
    pcUpload,     \* position of handleFileUpload: "idle", "reading", "processed"
    pcAuto,       \* position of tryAutoLoad: "reading", "processed", "done"
    file,         \* handleFileUpload's local: the name of the chosen file
    csvContent,   \* handleFileUpload's local: the parsed text of the file
    dataSource,   \* history: name of the file whose content produced data
    lastEvent     \* history: what the last step did

vars == <<data, itemTypes, typeFilters, loading, error, csvUploaded, fileName,
          pcUpload, pcAuto, file, csvContent, dataSource, lastEvent>>

(***************************************************************************)
(* Bounds of the model.                                                    *)
(***************************************************************************)
MaxRows == 2
MaxCtlRows == 2
MaxPctN == 21

(***************************************************************************)
(* Time.  Timestamps are milliseconds, as Date.getTime() returns them.     *)
(***************************************************************************)
DayMs == 1000 * 60 * 60 * 24
HalfDayMs == DayMs \div 2

\* A date cell of the CSV: empty, unparseable text, or a date with a time of day.
EmptyDate == [k |-> "empty", day |-> 0, tod |-> 0]
BadDate == [k |-> "bad", day |-> 0, tod |-> 0]
DateCell(d, t) == [k |-> "ok", day |-> d, tod |-> t]

\* new Date(String(cell).trim()): a Date object, whose time value is NaN when
\* the text is no date.
NewDate(cell) ==
    IF cell.k = "ok"
    THEN [isNaN |-> FALSE, time |-> cell.day * DayMs + cell.tod]
    ELSE [isNaN |-> TRUE, time |-> 0]

(***************************************************************************)
(* Text cells are sequences of characters; " " is white space.             *)
(***************************************************************************)
RECURSIVE TrimStart(_)
TrimStart(s) ==
    IF s # <<>> /\ Head(s) = " " THEN TrimStart(Tail(s)) ELSE s

RECURSIVE TrimEnd(_)
TrimEnd(s) ==
    IF s # <<>> /\ s[Len(s)] = " " THEN TrimEnd(SubSeq(s, 1, Len(s) - 1)) ELSE s

\* String(cell).trim()
Trim(s) == TrimEnd(TrimStart(s))

\* JavaScript truthiness of a parsed cell: an empty cell is null.
TruthyText(cell) == cell # <<>>
TruthyDate(cell) == cell.k # "empty"

(***************************************************************************)
(* Errors.  The error state holds a message; the model keeps what the      *)
(* message is built from: its kind, the row id it names, the missing       *)
(* columns and the header found.                                           *)
(***************************************************************************)
Err(kind, id, missing, found) ==
    [kind |-> kind, id |-> id, missing |-> missing, found |-> found]

NoError == Err("null", <<>>, <<>>, <<>>)
FileTypeError == Err("FileTypeError", <<>>, <<>>, <<>>)
ReadError == Err("ReadError", <<>>, <<>>, <<>>)

(***************************************************************************)
(* processCSV.  Its argument is what Papa.parse returns: meta.fields (the  *)
(* header) and data (one record of cells per non-empty line).              *)
(***************************************************************************)
requiredColumns == <<"ID", "Tipo de Item", "Commited Date", "Closed Date">>

Includes(s, x) == \E i \in 1..Len(s) : s[i] = x

\* Variant of MissingColumns that reports the first missing column only.
MissingColumnsFirstOnly(headers) ==
    LET Absent(col) == ~Includes(headers, col)
        missing == SelectSeq(requiredColumns, Absent)
    IN  IF missing = <<>> THEN missing ELSE <<missing[1]>>

\* requiredColumns.filter(col => !headers.includes(col))
MissingColumns(headers) ==
    LET Absent(col) == ~Includes(headers, col)
    IN  SelectSeq(requiredColumns, Absent)

\* row.ID && row['Tipo de Item'] && row['Commited Date'] && row['Closed Date']
RowComplete(row) ==
    /\ TruthyText(row.ID)
    /\ TruthyText(row.type)
    /\ TruthyDate(row.commited)
    /\ TruthyDate(row.closed)

\* Variant of RowError without the closed-before-commited check.
RowErrorDatesOnly(row) ==
    IF NewDate(row.commited).isNaN \/ NewDate(row.closed).isNaN
    THEN "InvalidDate" ELSE "none"

\* The two checks of the map callback, in the code's order.
RowError(row) ==
    LET commitedDate == NewDate(row.commited)
        closedDate == NewDate(row.closed)
    IN  IF commitedDate.isNaN \/ closedDate.isNaN THEN "InvalidDate"
        ELSE IF closedDate.time < commitedDate.time THEN "InconsistentDate"
        ELSE "none"

\* Variant of ValidRows that also drops the rows with a date at fault.
ValidRowsSkippingBad(rows) ==
    LET Keep(row) == RowComplete(row) /\ RowError(row) = "none"
    IN  SelectSeq(rows, Keep)

\* Variant of ValidRows that looks at the ID cell only.
ValidRowsByIdOnly(rows) ==
    LET HasId(row) == TruthyText(row.ID)
    IN  SelectSeq(rows, HasId)

\* parsed.data.filter(row => ...)
ValidRows(rows) == SelectSeq(rows, RowComplete)

\* Variant of LeadTime without the inclusive + 1.
LeadTimeExclusive(commitedTime, closedTime) ==
    (closedTime - commitedTime) \div DayMs

\* Math.floor(timeDiff / (1000 * 60 * 60 * 24)) + 1
LeadTime(commitedTime, closedTime) ==
    ((closedTime - commitedTime) \div DayMs) + 1

\* The record the map callback returns for a row that passed both checks.
MakeRecord(row) ==
    LET commitedDate == NewDate(row.commited)
        closedDate == NewDate(row.closed)
    IN  [id |-> Trim(row.ID),
         type |-> Trim(row.type),
         commitedDate |-> commitedDate.time,
         closedDate |-> closedDate.time,
         leadTime |-> LeadTime(commitedDate.time, closedDate.time),
         timestamp |-> closedDate.time]

\* Index of the first row on which the map callback throws, 0 when none.
RECURSIVE FirstBadFrom(_, _)
FirstBadFrom(rows, i) ==
    IF i > Len(rows) THEN 0
    ELSE IF RowError(rows[i]) # "none" THEN i
    ELSE FirstBadFrom(rows, i + 1)

FirstBad(rows) == FirstBadFrom(rows, 1)

MapRows(rows) == [i \in 1..Len(rows) |-> MakeRecord(rows[i])]

\* Variant of InsertByTimestamp that puts a record before its ties.
RECURSIVE InsertBeforeTies(_, _)
InsertBeforeTies(sorted, r) ==
    IF sorted = <<>> THEN <<r>>
    ELSE IF sorted[Len(sorted)].timestamp - r.timestamp >= 0
         THEN Append(InsertBeforeTies(SubSeq(sorted, 1, Len(sorted) - 1), r),
                     sorted[Len(sorted)])
         ELSE Append(sorted, r)

\* .sort((a, b) => a.timestamp - b.timestamp): Array.prototype.sort is stable.
RECURSIVE InsertByTimestamp(_, _)
InsertByTimestamp(sorted, r) ==
    IF sorted = <<>> THEN <<r>>
    ELSE IF sorted[Len(sorted)].timestamp - r.timestamp > 0
         THEN Append(InsertByTimestamp(SubSeq(sorted, 1, Len(sorted) - 1), r),
                     sorted[Len(sorted)])
         ELSE Append(sorted, r)

RECURSIVE SortFrom(_, _, _)
SortFrom(recs, i, acc) ==
    IF i > Len(recs) THEN acc
    ELSE SortFrom(recs, i + 1, InsertByTimestamp(acc, recs[i]))

SortByTimestamp(recs) == SortFrom(recs, 1, <<>>)

\* [...new Set(processedData.map(item => item.type))]: first-seen order.
RECURSIVE UniqueFrom(_, _, _)
UniqueFrom(recs, i, acc) ==
    IF i > Len(recs) THEN acc
    ELSE UniqueFrom(recs, i + 1,
                    IF Includes(acc, recs[i].type) THEN acc
                    ELSE Append(acc, recs[i].type))

UniqueTypes(recs) == UniqueFrom(recs, 1, <<>>)

\* uniqueTypes.forEach(type => { initialFilters[type] = true; })
InitialFilters(types) == [t \in {types[i] : i \in 1..Len(types)} |-> TRUE]

EmptyFilters == [t \in {} |-> TRUE]

\* What one call of processCSV does: throw (ok = FALSE, with the error), or
\* reach the three state setters with these values.
Thrown(e) ==
    [ok |-> FALSE, error |-> e, data |-> <<>>, itemTypes |-> <<>>,
     typeFilters |-> EmptyFilters]

processCSV(parsed) ==
    LET headers == parsed.fields
        missingColumns == MissingColumns(headers)
        validRows == ValidRows(parsed.data)
        bad == FirstBad(validRows)
        processedData == SortByTimestamp(MapRows(validRows))
        uniqueTypes == UniqueTypes(processedData)
    IN  IF Len(missingColumns) > 0
        THEN Thrown(Err("SchemaError", <<>>, missingColumns, headers))
        ELSE IF Len(validRows) = 0
        THEN Thrown(Err("NoValidDataError", <<>>, <<>>, <<>>))
        ELSE IF bad # 0
        THEN Thrown(Err(RowError(validRows[bad]), Trim(validRows[bad].ID),
                        <<>>, <<>>))
        ELSE [ok |-> TRUE, error |-> NoError, data |-> processedData,
              itemTypes |-> uniqueTypes,
              typeFilters |-> InitialFilters(uniqueTypes)]

(***************************************************************************)
(* Inputs: the rows, headers and file names the environment may supply.    *)
(***************************************************************************)
Row(id, type, commited, closed) ==
    [ID |-> id, type |-> type, commited |-> commited, closed |-> closed]

IDs == {<<"a">>, <<"b">>}
Types == {<<"B">>, <<"S">>}

\* (commited, closed) pairs with closed >= commited: equal instants; 12 hours
\* within one day; 12 hours over midnight; 36 hours; two whole days.
GoodDates ==
    { <<DateCell(0, 0), DateCell(0, 0)>>,
      <<DateCell(0, 0), DateCell(0, HalfDayMs)>>,
      <<DateCell(0, HalfDayMs), DateCell(1, 0)>>,
      <<DateCell(0, 0), DateCell(1, HalfDayMs)>>,
      <<DateCell(0, 0), DateCell(2, 0)>> }

CompleteRows ==
    {Row(i, t, p[1], p[2]) : i \in IDs, t \in Types, p \in GoodDates}

\* Rows with one defect: a blank or white-space type, a blank id, an
\* unparseable date, a closed date before the commited date.
DefectRows ==
    { Row(<<"a">>, <<>>, DateCell(0, 0), DateCell(0, 0)),
      Row(<<"a">>, <<" ">>, DateCell(0, 0), DateCell(0, 0)),
      Row(<<>>, <<"B">>, DateCell(0, 0), DateCell(0, 0)),
      Row(<<"b">>, <<"B">>, BadDate, DateCell(0, 0)),
      Row(<<"a">>, <<"S">>, DateCell(0, HalfDayMs), DateCell(0, 0)) }

Rows == CompleteRows \cup DefectRows

\* The rows of the files of the specification with both ingestions.
RowsCtl ==
    { Row(<<"a">>, <<"B">>, DateCell(0, 0), DateCell(0, 0)),
      Row(<<"b">>, <<"S">>, DateCell(0, 0), DateCell(1, HalfDayMs)),
      Row(<<"a">>, <<"S">>, DateCell(0, HalfDayMs), DateCell(0, 0)),
      Row(<<"a">>, <<>>, DateCell(0, 0), DateCell(0, 0)) }

SeqsUpTo(S, n) == UNION {[1..k -> S] : k \in 0..n}

BadHeaders ==
    { <<"ID", "Tipo de Item", "Closed Date">>,
      <<"Closed Date", "id">>,
      <<>> }

Parsed(fields, rows) == [fields |-> fields, data |-> rows]

\* Parsed contents of the files of at most n data rows drawn from rows, under
\* the full header, and of the files with a header of badHeaders.
Files(rows, badHeaders, n) ==
    {Parsed(requiredColumns, rs) : rs \in SeqsUpTo(rows, n)}
    \cup {Parsed(h, rs) : h \in badHeaders,
                          rs \in SeqsUpTo({Row(<<"a">>, <<"B">>,
                                   DateCell(0, 0), DateCell(0, 0))}, 1)}

\* The local csvContent before file.text() has resolved.
NoContent == Parsed(<<>>, <<>>)

UploadNames == {"dados.csv", "DADOS.CSV", "dados.txt"}
AutoName == "BaseClaude.csv"

\* Variant of ToLowerCase that leaves the name as it is.
ToLowerCaseIdentity(name) == name

\* file.name.toLowerCase()
ToLowerCase(name) == IF name = "DADOS.CSV" THEN "dados.csv" ELSE name

\* .endsWith('.csv')
EndsWithCsv(name) == name \in {"dados.csv", "BaseClaude.csv"}

FilesCtl == Files(RowsCtl, {<<"Closed Date", "id">>}, MaxCtlRows)

\* A header with the four required columns in another order and one column
\* more, which Papa.parse reports in meta.fields as it stands.
WideHeader == <<"Closed Date", "Sprint", "ID", "Commited Date", "Tipo de Item">>

\* Files under a header of BadHeaders or under WideHeader whose only row, if
\* any, is valid, has an unparseable date, or has a blank type.
HeaderRows ==
    { Row(<<"a">>, <<"B">>, DateCell(0, 0), DateCell(1, 0)),
      Row(<<"b">>, <<"B">>, BadDate, DateCell(0, 0)),
      Row(<<"a">>, <<>>, DateCell(0, 0), DateCell(0, 0)) }

FilesHeader ==
    {Parsed(h, rs) : h \in BadHeaders \cup {WideHeader},
                     rs \in SeqsUpTo(HeaderRows, 1)}

FilesData == Files(Rows, BadHeaders, MaxRows) \cup FilesHeader

(***************************************************************************)
(* What is rendered, and the event loop.                                   *)
(***************************************************************************)
\* if (!csvUploaded && !loading) return <upload screen>; else the dashboard.
UploadScreen == ~csvUploaded /\ ~loading
Dashboard == ~UploadScreen

\* "await processCSV(...)" resumes in a microtask: until it has run, no user
\* event and no I/O completion is dispatched.
MicrotaskPending == pcUpload = "processed" \/ pcAuto = "processed"

\* Variant of SetProcessed that keeps the previous filter entries.
SetProcessedMergingFilters(out) ==
    /\ data' = out.data
    /\ itemTypes' = out.itemTypes
    /\ typeFilters' = [t \in DOMAIN typeFilters \cup DOMAIN out.typeFilters |->
                          IF t \in DOMAIN typeFilters THEN typeFilters[t]
                          ELSE TRUE]

\* Variant of SetProcessed where only the data reaches the render.
SetProcessedDataOnly(out) ==
    /\ data' = out.data
    /\ UNCHANGED <<itemTypes, typeFilters>>

\* setData(processedData); setItemTypes(uniqueTypes); setTypeFilters(initialFilters)
SetProcessed(out) ==
    /\ data' = out.data
    /\ itemTypes' = out.itemTypes
    /\ typeFilters' = out.typeFilters

(***************************************************************************)
(* handleFileUpload                                                        *)
(***************************************************************************)
\* From the change event to "await file.text()", or to the early return.
UploadStart(name) ==
    /\ UploadScreen
    /\ pcUpload = "idle"
    /\ ~MicrotaskPending
    /\ file' = name
    /\ csvContent' = NoContent
    /\ IF ~EndsWithCsv(ToLowerCase(name))
       THEN /\ error' = FileTypeError
            /\ loading' = FALSE
            /\ lastEvent' = "uploadRejected"
            /\ UNCHANGED <<fileName, pcUpload>>
       ELSE /\ error' = NoError
            /\ loading' = TRUE
            /\ fileName' = name
            /\ pcUpload' = "reading"
            /\ lastEvent' = "uploadStart"
    /\ UNCHANGED <<data, itemTypes, typeFilters, csvUploaded, pcAuto, dataSource>>

\* Variant of UploadCatch that also clears the loaded data.
UploadCatchClearing(e) ==
    /\ error' = e
    /\ loading' = FALSE
    /\ pcUpload' = "idle"
    /\ lastEvent' = "uploadFailed"
    /\ data' = <<>>
    /\ itemTypes' = <<>>
    /\ typeFilters' = EmptyFilters
    /\ UNCHANGED <<csvUploaded, fileName, pcAuto, file, dataSource>>

\* catch (err) { setError(...) } finally { setLoading(false) }
UploadCatch(e) ==
    /\ error' = e
    /\ loading' = FALSE
    /\ pcUpload' = "idle"
    /\ lastEvent' = "uploadFailed"
    /\ UNCHANGED <<data, itemTypes, typeFilters, csvUploaded, fileName, pcAuto,
                   file, dataSource>>

\* file.text() settles; processCSV runs up to the await on its result.
UploadRead(files) ==
    /\ pcUpload = "reading"
    /\ ~MicrotaskPending
    /\ \/ UploadCatch(ReadError) /\ UNCHANGED csvContent
       \/ \E parsed \in files :
            LET out == processCSV(parsed)
            IN  /\ csvContent' = parsed
                /\ IF out.ok
                   THEN /\ SetProcessed(out)
                        /\ pcUpload' = "processed"
                        /\ dataSource' = file
                        /\ lastEvent' = "uploadCommitted"
                        /\ UNCHANGED <<loading, error, csvUploaded, fileName,
                                       pcAuto, file>>
                   ELSE UploadCatch(out.error)

\* Variant of UploadDone without the finally block.
UploadDoneKeepingLoading ==
    /\ pcUpload = "processed"
    /\ csvUploaded' = TRUE
    /\ pcUpload' = "idle"
    /\ lastEvent' = "uploadDone"
    /\ UNCHANGED <<data, itemTypes, typeFilters, loading, error, fileName,
                   pcAuto, file, csvContent, dataSource>>

\* setCsvUploaded(true); finally setLoading(false)
UploadDone ==
    /\ pcUpload = "processed"
    /\ csvUploaded' = TRUE
    /\ loading' = FALSE
    /\ pcUpload' = "idle"
    /\ lastEvent' = "uploadDone"
    /\ UNCHANGED <<data, itemTypes, typeFilters, error, fileName, pcAuto, file,
                   csvContent, dataSource>>

(***************************************************************************)
(* useEffect: tryAutoLoad                                                  *)
(***************************************************************************)
\* catch (err) { console.log(...) }
AutoCatch ==
    /\ pcAuto' = "done"
    /\ lastEvent' = "autoFailed"
    /\ UNCHANGED <<data, itemTypes, typeFilters, loading, error, csvUploaded,
                   pcUpload, file, csvContent, dataSource>>

\* window.fs.readFile settles; setFileName; processCSV up to the await.
AutoRead(files) ==
    /\ pcAuto = "reading"
    /\ ~MicrotaskPending
    /\ \/ AutoCatch /\ UNCHANGED fileName
       \/ \E parsed \in files :
            LET out == processCSV(parsed)
            IN  /\ fileName' = AutoName
                /\ IF out.ok
                   THEN /\ SetProcessed(out)
                        /\ pcAuto' = "processed"
                        /\ dataSource' = AutoName
                        /\ lastEvent' = "autoCommitted"
                        /\ UNCHANGED <<loading, error, csvUploaded, pcUpload,
                                       file, csvContent>>
                   ELSE AutoCatch

\* setCsvUploaded(true)
AutoDone ==
    /\ pcAuto = "processed"
    /\ csvUploaded' = TRUE
    /\ pcAuto' = "done"
    /\ lastEvent' = "autoDone"
    /\ UNCHANGED <<data, itemTypes, typeFilters, loading, error, fileName,
                   pcUpload, file, csvContent, dataSource>>

(***************************************************************************)
(* The dashboard's buttons                                                 *)
(***************************************************************************)
\* Variant of Toggled that flips every entry.
ToggledAll(prev, type) ==
    [t \in DOMAIN prev \cup {type} |->
        IF t \in DOMAIN prev THEN ~prev[t] ELSE TRUE]

\* Variant of Toggled that deletes the key of a type it turns off.
ToggledRemovingKey(prev, type) ==
    IF type \in DOMAIN prev /\ prev[type]
    THEN [t \in DOMAIN prev \ {type} |-> prev[t]]
    ELSE [t \in DOMAIN prev \cup {type} |->
             IF t = type THEN TRUE ELSE prev[t]]

\* setTypeFilters(prev => ({ ...prev, [type]: !prev[type] }))
Toggled(prev, type) ==
    [t \in DOMAIN prev \cup {type} |->
        IF t = type THEN (IF type \in DOMAIN prev THEN ~prev[type] ELSE TRUE)
        ELSE prev[t]]

\* One button per entry of itemTypes.
toggleTypeFilter(type) ==
    /\ Dashboard
    /\ ~MicrotaskPending
    /\ Includes(itemTypes, type)
    /\ typeFilters' = Toggled(typeFilters, type)
    /\ lastEvent' = "toggle"
    /\ UNCHANGED <<data, itemTypes, loading, error, csvUploaded, fileName,
                   pcUpload, pcAuto, file, csvContent, dataSource>>

\* Variant of Reset that leaves csvUploaded as it is.
ResetKeepingUploaded ==
    /\ Dashboard
    /\ ~MicrotaskPending
    /\ data' = <<>>
    /\ itemTypes' = <<>>
    /\ typeFilters' = EmptyFilters
    /\ error' = NoError
    /\ fileName' = ""
    /\ dataSource' = ""
    /\ lastEvent' = "reset"
    /\ UNCHANGED <<csvUploaded, loading, pcUpload, pcAuto, file, csvContent>>

\* "Importar Novo CSV"
Reset ==
    /\ Dashboard
    /\ ~MicrotaskPending
    /\ csvUploaded' = FALSE
    /\ data' = <<>>
    /\ itemTypes' = <<>>
    /\ typeFilters' = EmptyFilters
    /\ error' = NoError
    /\ fileName' = ""
    /\ dataSource' = ""
    /\ lastEvent' = "reset"
    /\ UNCHANGED <<loading, pcUpload, pcAuto, file, csvContent>>

AllTypes == Types \cup {<<>>}

(***************************************************************************)
(* Values the render function derives from the state                       *)
(***************************************************************************)
\* typeFilters[type], undefined (falsy) for a missing key
FilterOn(type) == type \in DOMAIN typeFilters /\ typeFilters[type]

\* data.filter(item => typeFilters[item.type])
filteredData ==
    LET Active(item) == FilterOn(item.type)
    IN  SelectSeq(data, Active)

\* .sort((a, b) => a - b)
RECURSIVE InsertNumber(_, _)
InsertNumber(sorted, x) ==
    IF sorted = <<>> THEN <<x>>
    ELSE IF sorted[Len(sorted)] - x > 0
         THEN Append(InsertNumber(SubSeq(sorted, 1, Len(sorted) - 1), x),
                     sorted[Len(sorted)])
         ELSE Append(sorted, x)

RECURSIVE SortNumbersFrom(_, _, _)
SortNumbersFrom(xs, i, acc) ==
    IF i > Len(xs) THEN acc
    ELSE SortNumbersFrom(xs, i + 1, InsertNumber(acc, xs[i]))

\* filteredData.map(item => item.leadTime).sort((a, b) => a - b)
filteredLeadTimes ==
    SortNumbersFrom([i \in 1..Len(filteredData) |-> filteredData[i].leadTime],
                    1, <<>>)

\* Variant of p85Index by the nearest-rank rule, ceil(n * 0.85) - 1.
P85IndexNearestRank == ((Len(filteredLeadTimes) * 85 + 99) \div 100) - 1

\* Math.floor(filteredLeadTimes.length * 0.85), a 0-based index
p85Index == (Len(filteredLeadTimes) * 85) \div 100

\* Math.floor(filteredLeadTimes.length * 0.95)
p95Index == (Len(filteredLeadTimes) * 95) \div 100

p85Value ==
    IF Len(filteredLeadTimes) > 0 THEN filteredLeadTimes[p85Index + 1] ELSE 0

p95Value ==
    IF Len(filteredLeadTimes) > 0 THEN filteredLeadTimes[p95Index + 1] ELSE 0

\* data.filter(item => item.type === type).length, the badge of a type button
typeCount(type) ==
    LET OfType(item) == item.type = type
    IN  Len(SelectSeq(data, OfType))

(***************************************************************************)
(* Specifications                                                          *)
(***************************************************************************)
\* After the first render and its effect: tryAutoLoad waits for readFile.
Init ==
    /\ data = <<>>
    /\ itemTypes = <<>>
    /\ typeFilters = EmptyFilters
    /\ loading = FALSE
    /\ error = NoError
    /\ csvUploaded = FALSE
    /\ fileName = ""
    /\ pcUpload = "idle"
    /\ pcAuto = "reading"
    /\ file = ""
    /\ csvContent = NoContent
    /\ dataSource = ""
    /\ lastEvent = "init"

UploadStep ==
    \E name \in UploadNames : UploadStart(name)

ToggleStep ==
    \E type \in AllTypes : toggleTypeFilter(type)

Next ==
    \/ UploadStep
    \/ UploadRead(FilesCtl)
    \/ UploadDone
    \/ AutoRead(FilesCtl)
    \/ AutoDone
    \/ ToggleStep
    \/ Reset

Spec == Init /\ [][Next]_vars

\* The event loop runs what is ready: the promise of file.text() settles
\* (resolved or rejected), and the continuation of an "await processCSV" is a
\* microtask, run as soon as the current run of JavaScript ends.
Fairness ==
    /\ WF_vars(UploadRead(FilesCtl))
    /\ WF_vars(UploadDone)
    /\ WF_vars(AutoDone)

SpecLive == Spec /\ Fairness

\* The same component where window.fs is absent: tryAutoLoad's readFile call
\* throws at once and the catch ends it.  Files of up to MaxRows rows.
InitNoFs ==
    /\ data = <<>>
    /\ itemTypes = <<>>
    /\ typeFilters = EmptyFilters
    /\ loading = FALSE
    /\ error = NoError
    /\ csvUploaded = FALSE
    /\ fileName = ""
    /\ pcUpload = "idle"
    /\ pcAuto = "done"
    /\ file = ""
    /\ csvContent = NoContent
    /\ dataSource = ""
    /\ lastEvent = "init"

NextData ==
    \/ UploadStep
    \/ UploadRead(FilesData)
    \/ UploadDone
    \/ ToggleStep
    \/ Reset

SpecData == InitNoFs /\ [][NextData]_vars

\* The dashboard after the upload of a file of n rows whose lead times are a
\* rotation of 1..n (with a gap of one day after the first when gap = 1) and
\* whose types alternate with period m; then only the type buttons are used.
GenRow(n, shift, gap, m, i) ==
    LET day == (i + shift) % n
    IN  Row(<<"a">>, IF i % m = 0 THEN <<"B">> ELSE <<"S">>,
            DateCell(0, 0), DateCell(IF day > 0 THEN day + gap ELSE 0, 0))

GenFile(n, shift, gap, m) ==
    Parsed(requiredColumns, [i \in 1..n |-> GenRow(n, shift, gap, m, i)])

InitPct ==
    \E n \in 1..MaxPctN, gap \in 0..1, m \in 1..3 :
      \E shift \in 0..(n - 1) :
        LET out == processCSV(GenFile(n, shift, gap, m))
        IN  /\ csvContent = GenFile(n, shift, gap, m)
            /\ data = out.data
            /\ itemTypes = out.itemTypes
            /\ typeFilters = out.typeFilters
            /\ loading = FALSE
            /\ error = NoError
            /\ csvUploaded = TRUE
            /\ fileName = "dados.csv"
            /\ pcUpload = "idle"
            /\ pcAuto = "done"
            /\ file = "dados.csv"
            /\ dataSource = "dados.csv"
            /\ lastEvent = "uploadDone"

NextPct == ToggleStep

SpecPct == InitPct /\ [][NextPct]_vars

(***************************************************************************)
(* The first copy of the component (lines 5-427).  Its processCSV has no   *)
(* header check and no date checks, its handleFileUpload no file-type      *)
(* check; there is no fileName state and no reset button.  The catch and   *)
(* finally of handleFileUpload, the three setters, the continuations after *)
(* "await processCSV" and the toggle are the same code as in the second    *)
(* copy.  The files of this specification have parseable dates only.       *)
(***************************************************************************)
\* row.ID && ... on a row of a file whose header lacks a column: the cell is
\* undefined.
RowCompleteFirst(fields, row) ==
    /\ \A i \in 1..Len(requiredColumns) : Includes(fields, requiredColumns[i])
    /\ RowComplete(row)

processCSVFirst(parsed) ==
    LET Complete(row) == RowCompleteFirst(parsed.fields, row)
        processedData == SortByTimestamp(MapRows(SelectSeq(parsed.data, Complete)))
        uniqueTypes == UniqueTypes(processedData)
    IN  [ok |-> TRUE, error |-> NoError, data |-> processedData,
         itemTypes |-> uniqueTypes,
         typeFilters |-> InitialFilters(uniqueTypes)]

UploadStartFirst(name) ==
    /\ UploadScreen
    /\ pcUpload = "idle"
    /\ ~MicrotaskPending
    /\ file' = name
    /\ csvContent' = NoContent
    /\ error' = NoError
    /\ loading' = TRUE
    /\ pcUpload' = "reading"
    /\ lastEvent' = "uploadStart"
    /\ UNCHANGED <<data, itemTypes, typeFilters, csvUploaded, fileName, pcAuto,
                   dataSource>>

UploadReadFirst(files) ==
    /\ pcUpload = "reading"
    /\ ~MicrotaskPending
    /\ \/ UploadCatch(ReadError) /\ UNCHANGED csvContent
       \/ \E parsed \in files :
            /\ csvContent' = parsed
            /\ SetProcessed(processCSVFirst(parsed))
            /\ pcUpload' = "processed"
            /\ dataSource' = file
            /\ lastEvent' = "uploadCommitted"
            /\ UNCHANGED <<loading, error, csvUploaded, fileName, pcAuto, file>>

AutoReadFirst(files) ==
    /\ pcAuto = "reading"
    /\ ~MicrotaskPending
    /\ \/ AutoCatch /\ UNCHANGED fileName
       \/ \E parsed \in files :
            /\ SetProcessed(processCSVFirst(parsed))
            /\ pcAuto' = "processed"
            /\ dataSource' = AutoName
            /\ lastEvent' = "autoCommitted"
            /\ UNCHANGED <<loading, error, csvUploaded, fileName, pcUpload,
                           file, csvContent>>

UploadStepFirst ==
    \E name \in UploadNames : UploadStartFirst(name)

NextFirst ==
    \/ UploadStepFirst
    \/ UploadReadFirst(FilesCtl)
    \/ UploadDone
    \/ AutoReadFirst(FilesCtl)
    \/ AutoDone
    \/ ToggleStep

SpecFirst == Init /\ [][NextFirst]_vars

(***************************************************************************)
(* Properties                                                              *)
(***************************************************************************)
TypesOf(recs) == {recs[i].type : i \in 1..Len(recs)}
SetOf(s) == {s[i] : i \in 1..Len(s)}

\* C1: a step of an ingestion that fails (the file-type rejection, the catch
\* of handleFileUpload, the catch of tryAutoLoad) leaves the Dataset, the
\* item-type list and the TypeFilterSet as they were.
C1_FailedIngestionKeepsState ==
    [][lastEvent' \in {"uploadRejected", "uploadFailed", "autoFailed"}
         => /\ data' = data
            /\ itemTypes' = itemTypes
            /\ typeFilters' = typeFilters]_vars

\* An upload has just failed on a closed date before the commited date while
\* the Dataset of the automatic load is in place.
C1_Witness ==
    /\ lastEvent = "uploadFailed"
    /\ error.kind = "InconsistentDate"
    /\ data # <<>>
    /\ dataSource = AutoName

\* C2: every record's leadTime is floor(elapsed / one day) + 1, stated as the
\* day interval the elapsed time falls in; commit and close on the same day
\* give exactly 1.
C2_LeadTimeInclusive ==
    \A i \in 1..Len(data) :
        LET r == data[i]
            elapsed == r.closedDate - r.commitedDate
        IN  /\ (r.leadTime - 1) * DayMs <= elapsed
            /\ elapsed < r.leadTime * DayMs
            /\ (r.closedDate \div DayMs = r.commitedDate \div DayMs
                  => r.leadTime = 1)

\* A Dataset with a same-day record closed 12 hours after its commitment and
\* a record of lead time 3.
C2_Witness ==
    /\ lastEvent = "uploadCommitted"
    /\ \E i \in 1..Len(data) :
          /\ data[i].closedDate \div DayMs = data[i].commitedDate \div DayMs
          /\ data[i].closedDate > data[i].commitedDate
          /\ data[i].leadTime = 1
    /\ \E i \in 1..Len(data) : data[i].leadTime = 3

\* The rows of the file just read that pass the completeness filter and
\* have a date at fault, in file order.
HasFullHeader(parsed) == \A i \in 1..Len(requiredColumns) :
                            Includes(parsed.fields, requiredColumns[i])
Offending(row) == RowComplete(row) /\ RowError(row) # "none"
OffendingIn(parsed) == {i \in 1..Len(parsed.data) : Offending(parsed.data[i])}
FirstOffending(parsed) ==
    CHOOSE i \in OffendingIn(parsed) : \A j \in OffendingIn(parsed) : i <= j
JustRead == lastEvent \in {"uploadCommitted", "uploadFailed"}

\* C3: when the file just read has the full header and a complete row with
\* a date at fault, the upload has failed with a date error naming the id of
\* the first such row, and the Dataset holds no record of this file.
\* (Holds of the second copy, under SpecData; violated by the first copy,
\* under SpecFirst.)
C3_FailFast ==
    (JustRead /\ HasFullHeader(csvContent) /\ OffendingIn(csvContent) # {})
    => /\ lastEvent = "uploadFailed"
       /\ error.kind \in {"InvalidDate", "InconsistentDate"}
       /\ error.kind = RowError(csvContent.data[FirstOffending(csvContent)])
       /\ error.id = Trim(csvContent.data[FirstOffending(csvContent)].ID)
       /\ dataSource # file

\* A file whose first row is valid and whose second row is closed before it
\* was commited has just failed.
C3_Witness ==
    /\ lastEvent = "uploadFailed"
    /\ Len(csvContent.data) = 2
    /\ RowComplete(csvContent.data[1])
    /\ RowError(csvContent.data[1]) = "none"
    /\ Offending(csvContent.data[2])
    /\ error.kind = "InconsistentDate"
    /\ data = <<>>

C5_Serialized ==
    ~(pcUpload # "idle" /\ pcAuto # "done")

\* C6: right after a successful ingestion the TypeFilterSet has exactly the
\* distinct item types of the new Dataset as keys, each active, whatever the
\* filters were before.
C6_FiltersResetOnLoad ==
    lastEvent \in {"uploadCommitted", "autoCommitted"}
    => /\ DOMAIN typeFilters = TypesOf(data)
       /\ \A t \in DOMAIN typeFilters : typeFilters[t] = TRUE

\* An upload of a one-type file has just replaced the Dataset the automatic
\* load had put in place.
C6_Witness ==
    /\ lastEvent = "uploadCommitted"
    /\ csvUploaded
    /\ pcAuto = "done"
    /\ Cardinality(TypesOf(data)) = 1
    /\ typeFilters = [t \in TypesOf(data) |-> TRUE]

Injections(n) ==
    {f \in [1..n -> 1..n] : \A i, j \in 1..n : i # j => f[i] # f[j]}

\* C7: right after a successful upload the Dataset is the records of the
\* file's complete rows arranged in ascending closed date, records of equal
\* closed date in the order of their rows in the file (which fixes the
\* Dataset uniquely for a given file).
C7_SortedStable ==
    lastEvent = "uploadCommitted"
    => LET recs == MapRows(SelectSeq(csvContent.data, RowComplete))
           n == Len(recs)
       IN  /\ Len(data) = n
           /\ \A i, j \in 1..n :
                 i < j => data[i].closedDate <= data[j].closedDate
           /\ \E f \in Injections(n) :
                 /\ \A i \in 1..n : data[i] = recs[f[i]]
                 /\ \A i, j \in 1..n :
                       (i < j /\ data[i].closedDate = data[j].closedDate)
                       => f[i] < f[j]

\* Two rows of different ids and one closed date were just ingested, and the
\* Dataset keeps them in file order.
C7_Witness ==
    /\ lastEvent = "uploadCommitted"
    /\ Len(data) = 2
    /\ data[1].closedDate = data[2].closedDate
    /\ data[1].id # data[2].id
    /\ data[1].id = Trim(csvContent.data[1].ID)

\* C8: every record of the Dataset is closed no earlier than commited and has
\* a lead time of at least 1.  (Holds of the second copy, under Spec and
\* SpecData; violated by the first copy, under SpecFirst.)
C8_RecordsWellFormed ==
    \A i \in 1..Len(data) :
        /\ data[i].closedDate >= data[i].commitedDate
        /\ data[i].leadTime \in Nat
        /\ data[i].leadTime >= 1

\* A Dataset of the automatic load, after a toggle, with a record of lead
\* time 2.
C8_Witness ==
    /\ dataSource = AutoName
    /\ lastEvent = "toggle"
    /\ \E i \in 1..Len(data) : data[i].leadTime = 2

\* The lead times taking part: those of the records whose type is active.
ActiveIdx == {i \in 1..Len(data) : FilterOn(data[i].type)}
ActiveBelow(v) == Cardinality({i \in ActiveIdx : data[i].leadTime < v})
ActiveUpTo(v) == Cardinality({i \in ActiveIdx : data[i].leadTime <= v})
\* v is the element at 0-based index k of the ascending lead times
AtRank(v, k) == ActiveBelow(v) <= k /\ k < ActiveUpTo(v)
ActiveLeadTimes == {data[i].leadTime : i \in ActiveIdx}

\* C9: p85 and p95 are the elements at 0-based ranks floor(n * 0.85) and
\* floor(n * 0.95) of the ascending lead times of the n filtered records, 0
\* when n = 0; for lead times 1..10 they are 9 and 10, for {1, 3} p85 is 3.
C9_PercentileRank ==
    LET n == Cardinality(ActiveIdx)
    IN  /\ n = 0 => (p85Value = 0 /\ p95Value = 0)
        /\ n > 0 => /\ AtRank(p85Value, (n * 85) \div 100)
                    /\ AtRank(p95Value, (n * 95) \div 100)
        /\ (n = 10 /\ ActiveLeadTimes = 1..10)
              => (p85Value = 9 /\ p95Value = 10)
        /\ (n = 2 /\ ActiveLeadTimes = {1, 3}) => p85Value = 3

\* After a toggle twenty-one records are filtered in, so that both ranks
\* differ from the last one.
C9_Witness ==
    /\ lastEvent = "toggle"
    /\ Cardinality(ActiveIdx) = 21
    /\ ActiveLeadTimes = 1..21
    /\ p85Value = 18
    /\ p95Value = 20

CountOfType(recs, type) ==
    Cardinality({i \in 1..Len(recs) : recs[i].type = type})

\* C10: the filtered population holds all records of a type whose entry is
\* true and none of any other type; a step that turns a type off removes
\* exactly that type's records from it and changes neither the Dataset nor
\* another type's entry nor that type's badge, which stays its number of
\* records in the Dataset.
C10_ToggleFrame ==
    [][/\ \A t \in TypesOf(data') \cup DOMAIN typeFilters' :
             CountOfType(filteredData', t) =
                 IF t \in DOMAIN typeFilters' /\ typeFilters'[t]
                 THEN CountOfType(data', t) ELSE 0
       /\ \A t \in DOMAIN typeFilters :
             (lastEvent' = "toggle" /\ typeFilters[t]
                /\ t \in DOMAIN typeFilters' /\ ~typeFilters'[t])
             => LET Other(item) == item.type # t
                IN  /\ filteredData' = SelectSeq(filteredData, Other)
                    /\ data' = data
                    /\ DOMAIN typeFilters' = DOMAIN typeFilters
                    /\ \A u \in DOMAIN typeFilters \ {t} :
                          typeFilters'[u] = typeFilters[u]
                    /\ typeCount(t)' = typeCount(t)
                    /\ typeCount(t)' = CountOfType(data, t)]_vars

\* One of two types is off: its record is filtered out and its badge is 1.
C10_Witness ==
    /\ lastEvent = "toggle"
    /\ Len(data) = 2
    /\ Len(filteredData) = 1
    /\ Cardinality(DOMAIN typeFilters) = 2
    /\ \E t \in DOMAIN typeFilters : ~typeFilters[t] /\ typeCount(t) = 1

\* The four required columns, and the columns of a header, as sets.
RequiredSet == {"ID", "Tipo de Item", "Commited Date", "Closed Date"}
HeaderSet(parsed) == {parsed.fields[i] : i \in 1..Len(parsed.fields)}
Decoded == JustRead /\ ~(lastEvent = "uploadFailed" /\ error.kind = "ReadError")

\* C11: an upload whose file was decoded ends in a SchemaError iff one of
\* the four required columns is absent from the header, whatever the rows
\* hold; the error then lists each absent column once and no present one,
\* and carries the header found.
C11_SchemaError ==
    Decoded
    => /\ (lastEvent = "uploadFailed" /\ error.kind = "SchemaError")
            <=> (RequiredSet \ HeaderSet(csvContent) # {})
       /\ error.kind = "SchemaError"
            => /\ SetOf(error.missing) = RequiredSet \ HeaderSet(csvContent)
               /\ Len(error.missing) = Cardinality(SetOf(error.missing))
               /\ error.found = csvContent.fields
               /\ data = <<>>

\* A file under the header "Closed Date, id", whose one row has an
\* unparseable date, has just failed on its three missing columns.
C11_Witness ==
    /\ lastEvent = "uploadFailed"
    /\ error.kind = "SchemaError"
    /\ error.missing = <<"ID", "Tipo de Item", "Commited Date">>
    /\ error.found = <<"Closed Date", "id">>
    /\ Len(csvContent.data) = 1
    /\ csvContent.data[1].commited = BadDate

NoCompleteRow(parsed) ==
    \A i \in 1..Len(parsed.data) : ~RowComplete(parsed.data[i])

CompleteAfterTrim(row) ==
    /\ Trim(row.ID) # <<>>
    /\ Trim(row.type) # <<>>
    /\ row.commited.k # "empty"
    /\ row.closed.k # "empty"

\* C13: every record of the Dataset has a non-empty id and a non-empty type,
\* and right after a successful upload the Dataset has one record for each
\* row of the file whose four required cells are non-empty after trimming
\* and none for any other row.
\* (Violated: a cell of white space alone passes the filter of processCSV.)
C13_CompleteAfterTrim ==
    /\ \A i \in 1..Len(data) : data[i].id # <<>> /\ data[i].type # <<>>
    /\ lastEvent = "uploadCommitted"
         => Len(data) = Cardinality({i \in 1..Len(csvContent.data) :
                                       CompleteAfterTrim(csvContent.data[i])})

\* The calendar day a timestamp falls on.
DayOf(time) == time \div DayMs

\* C14: the lead time of a record depends on the calendar days of its two
\* dates only: it is the number of days from the day of commitment to the
\* day of closing, both included, so two records with the same pair of days
\* have the same lead time whatever their times of day.
\* (Violated: processCSV subtracts the two instants as parsed.)
C14_CalendarDays ==
    /\ \A i \in 1..Len(data) :
          data[i].leadTime =
              DayOf(data[i].closedDate) - DayOf(data[i].commitedDate) + 1
    /\ \A i, j \in 1..Len(data) :
          (/\ DayOf(data[i].commitedDate) = DayOf(data[j].commitedDate)
           /\ DayOf(data[i].closedDate) = DayOf(data[j].closedDate))
          => data[i].leadTime = data[j].leadTime

\* C15: a file chosen for upload is rejected iff its name does not end in
\* .csv, upper or lower case; the rejecting step sets the file-type error
\* and leaves loading false, starts no read of the file, and changes neither
\* the Dataset, the item-type list, the TypeFilterSet nor the file name.
C15_FileTypeRejected ==
    [][lastEvent' \in {"uploadStart", "uploadRejected"}
         => /\ (lastEvent' = "uploadRejected")
                 <=> (file' \notin {"dados.csv", "DADOS.CSV"})
            /\ lastEvent' = "uploadRejected"
                 => /\ error' = FileTypeError
                    /\ error' # NoError
                    /\ loading' = FALSE
                    /\ pcUpload' = "idle"
                    /\ csvContent' = NoContent
                    /\ data' = data
                    /\ itemTypes' = itemTypes
                    /\ typeFilters' = typeFilters
                    /\ fileName' = fileName
                    /\ csvUploaded' = csvUploaded]_vars

\* dados.txt has just been rejected while the file name is still that of an
\* earlier upload and the automatic load is still reading.
C15_Witness ==
    /\ lastEvent = "uploadRejected"
    /\ file = "dados.txt"
    /\ fileName = "dados.csv"
    /\ error = FileTypeError
    /\ ~loading
    /\ pcUpload = "idle"
    /\ pcAuto = "reading"

\* C16: in every reachable state the keys of the TypeFilterSet are the types
\* of the item-type list, which are the distinct types of the records of
\* the Dataset, each listed once (all three empty right after a reset); a
\* toggle flips the value of one existing key and adds or removes none.
C16_FilterKeysInvariant ==
    /\ [](/\ DOMAIN typeFilters = SetOf(itemTypes)
          /\ SetOf(itemTypes) = TypesOf(data)
          /\ Len(itemTypes) = Cardinality(SetOf(itemTypes))
          /\ lastEvent = "reset"
               => (data = <<>> /\ itemTypes = <<>> /\ DOMAIN typeFilters = {}))
    /\ [][lastEvent' = "toggle"
            => /\ DOMAIN typeFilters' = DOMAIN typeFilters
               /\ \E t \in DOMAIN typeFilters :
                     typeFilters' = [typeFilters EXCEPT ![t] = ~typeFilters[t]]
               /\ itemTypes' = itemTypes
               /\ data' = data]_vars

\* Both types of a two-type Dataset have been toggled off.
C16_Witness ==
    /\ lastEvent = "toggle"
    /\ Len(itemTypes) = 2
    /\ DOMAIN typeFilters = TypesOf(data)
    /\ \A t \in DOMAIN typeFilters : ~typeFilters[t]

\* C17: when the dashboard shows a loaded Dataset and neither ingestion is
\* in flight, the file name is the name of the file whose content produced
\* the Dataset.
\* (Violated: tryAutoLoad and the reset button write fileName while an
\* upload is in flight.)
C17_FileNameMatchesSource ==
    (/\ csvUploaded
     /\ ~loading
     /\ data # <<>>
     /\ pcUpload = "idle"
     /\ pcAuto = "done")
    => fileName = dataSource

\* C18: in every reachable state csvUploaded implies a non-empty Dataset;
\* csvUploaded is set only by the step that follows a processCSV which has
\* just committed at least one record, and a reset clears csvUploaded and
\* the Dataset together.
C18_UploadedImpliesData ==
    /\ [](csvUploaded => data # <<>>)
    /\ [][/\ (csvUploaded' /\ ~csvUploaded)
               => lastEvent' \in {"uploadDone", "autoDone"}
          /\ lastEvent' \in {"uploadDone", "autoDone"}
               => /\ lastEvent \in {"uploadCommitted", "autoCommitted"}
                  /\ csvUploaded'
                  /\ data' = data
                  /\ data # <<>>
          /\ lastEvent' = "reset"
               => (~csvUploaded' /\ data' = <<>>)]_vars

\* The automatic load has just set csvUploaded, with its records in place,
\* while an upload is still reading.
C18_Witness ==
    /\ lastEvent = "autoDone"
    /\ csvUploaded
    /\ data # <<>>
    /\ dataSource = AutoName
    /\ pcUpload = "reading"

\* C19: an upload that has set loading to true eventually sets it to false
\* and ends; the step that ends a successful upload leaves error null and
\* csvUploaded true, the step that ends a failed or rejected one leaves
\* error non-null and csvUploaded as it was, and loading falls in no other
\* step.
C19_LoadingEnds ==
    /\ loading ~> ~loading
    /\ (pcUpload # "idle") ~> (pcUpload = "idle")
    /\ [][/\ lastEvent' = "uploadStart" => (loading' /\ pcUpload' = "reading")
          /\ lastEvent' = "uploadDone"
               => (~loading' /\ error' = NoError /\ csvUploaded')
          /\ lastEvent' \in {"uploadFailed", "uploadRejected"}
               => /\ ~loading'
                  /\ error' # NoError
                  /\ csvUploaded' = csvUploaded
          /\ (loading /\ ~loading')
               => lastEvent' \in {"uploadDone", "uploadFailed"}]_vars

\* The upload of DADOS.CSV has just ended well: loading is false again,
\* error is null and csvUploaded is true.
C19_Witness ==
    /\ lastEvent = "uploadDone"
    /\ file = "DADOS.CSV"
    /\ dataSource = "DADOS.CSV"
    /\ ~loading
    /\ error = NoError
    /\ csvUploaded
    /\ pcUpload = "idle"

====
